---- MODULE Spec2Model ----
(***************************************************************************)
(* Client-side session handling of the todo SaaS front end: the            *)
(* localStorage-backed session store, the axios request/response           *)
(* interceptors, the login / tenant-selection / tenant-switch handlers,    *)
(* the session validator hook, and the Dashboard's aggregation poll.       *)
(* Spec is the Login and Todos pages with the Navbar; SpecAgg is the        *)
(* Dashboard's manual aggregation; SpecResponse is the handling of         *)
(* responses alone, from the states in which requests are in flight;       *)
(* SpecAccount is the Signup page and the Dashboard's account deletion;    *)
(* SpecTodos is the Todos page with its filters, pagination and todo        *)
(* mutations; SpecTeam is the team list of an owner's Todos page.          *)
(*                                                                         *)
(* The browser runs one task at a time.  A response is handled in one      *)
(* step: the response interceptor, then the continuation of the awaiting   *)
(* handler; nothing else runs between the two (promise microtasks).        *)
(***************************************************************************)
EXTENDS Integers, Sequences, FiniteSets, Bags, TLC

\* ------------------------------------------------------------------ bounds
MaxInflight == 1      \* requests in flight beyond which no handler or timer sends another
MaxTok == 2           \* token pairs the server issues in one run
MaxLU == 2            \* distinct last_updated stamps of the dashboard metrics
MaxTodos == 6         \* todos of the tenant beyond which none is created
MaxMut == 1           \* todo mutations the page sends in one run

\* --------------------------------------------------------------- constants
NULL == "null"                         \* getItem of a missing key, undefined
Username == "alice"                    \* the account that logs in
Schemas == {"t1", "t2"}
Roles == {"OWNER", "MEMBER", "VIEWER"}
Keys == {"access", "refresh", "role", "email", "username", "tenant", "tenants"}
Views == {"login", "signup", "todos", "dashboard"}
Protected == {"todos", "dashboard"}

VARIABLES
    store,          \* localStorage: key -> value or NULL
    view,           \* the route element that is mounted
    login,          \* React state of the mounted Login page
    inflight,       \* bag of requests sent and not yet answered
    reloadPending,  \* a document navigation was started and has not committed
    issued,         \* token pairs issued by the server so far
    log,            \* what the task that ran last did to end the session or
                    \* to report a failure, in order
    agg,            \* the Dashboard's metrics state and its aggregation poll
    server,         \* the todos of the tenant as the server holds them
    todosPage       \* React state of the mounted Todos page and of its
                    \* team list, with the role and username they rendered
                    \* with

vars == <<store, view, login, inflight, reloadPending, issued, log, agg,
          server, todosPage>>
sessionVars == <<store, view, login, inflight, reloadPending, issued, log,
                 server, todosPage>>

\* ------------------------------------------------------------- the store
EmptyStore == [k \in Keys |-> NULL]

\* localStorage.clear(): every key is removed
ClearStoreKeepsTenants(s) == [k \in Keys |-> IF k \in {"tenants", "email"} THEN s[k] ELSE NULL]
ClearStoreNotIdempotent(s) ==
    IF s = EmptyStore THEN [EmptyStore EXCEPT !["tenants"] = "[]"] ELSE EmptyStore
ClearStore(s) == [k \in Keys |-> NULL]

\* the reads of the store
getToken == store["access"]
getRefresh == store["refresh"]
getRole == store["role"]
getUsername == store["username"]
getTenantSchema == store["tenant"]
getTenantList == store["tenants"]

\* JSON.stringify of a tenant list: the stored value is a string
Stringify(list) ==
    IF list = <<>> THEN "[]"
    ELSE IF list = <<"t1">> THEN "[t1]"
    ELSE IF list = <<"t2">> THEN "[t2]"
    ELSE IF list = <<"t1", "t2">> THEN "[t1,t2]"
    ELSE "[t2,t1]"

\* JavaScript truthiness of a stored or received string, and  v || ""
Truthy(v) == v # NULL /\ v # ""
OrEmpty(v) == IF Truthy(v) THEN v ELSE ""

\* the token strings the server hands out with its n-th exchange
AccessOf(n) == <<"a1", "a2", "a3", "a4", "a5">>[n]
RefreshOf(n) == <<"r1", "r2", "r3", "r4", "r5">>[n]

\* ------------------------------------------------------------ strings
\* error texts are sequences of characters, so that includes() is computed
Includes(s, sub) ==
    \E i \in 1..(Len(s) - Len(sub) + 1) : SubSeq(s, i, i + Len(sub) - 1) = sub
Cannot == <<"c","a","n","n","o","t">>
Not == <<"n","o","t">>
Permission == <<"p","e","r","m","i","s","s","i","o","n">>
NotAllowed == <<"n","o","t"," ","a","l","l","o","w","e","d">>
NoPermission == <<"n","o"," ","p","e","r","m","i","s","s","i","o","n">>
YouCannot == <<"y","o","u"," ","c","a","n","n","o","t">>
Forbidden == <<"f","o","r","b","i","d","d","e","n">>
\* the error texts of the model and the characters of each
Texts == {"", "not allowed", "no permission", "you cannot", "forbidden"}
Chars(t) ==
    CASE t = "not allowed" -> NotAllowed
      [] t = "no permission" -> NoPermission
      [] t = "you cannot" -> YouCannot
      [] t = "forbidden" -> Forbidden
      [] OTHER -> <<>>
\* the (detail, error) texts a 403 body carries; "" is a missing text
Body403 == {<<"", "">>, <<"not allowed", "">>, <<"", "no permission">>,
            <<"forbidden", "you cannot">>, <<"forbidden", "">>}

\* error.response?.data?.detail || error.response?.data?.error || ""
\* (a missing text and the empty text are both "")
ErrorMsg(detail, error) == IF detail # "" THEN detail ELSE error

\* ------------------------------------------------------------ requests
Kinds == {"login", "switchSel", "switchNav", "check", "todos", "tusers",
          "register", "delete", "create", "toggle", "update", "remove",
          "team", "removeUser", "setRole"}
\* the requests that change a todo, and those of the team list
Mutations == {"create", "toggle", "update", "remove"}
TeamKinds == {"team", "removeUser", "setRole"}

\* a request as dispatched: the request interceptor attaches the stored token
\* (target and value: the todo or user a request is about and what it sets)
ReqUnauthenticated(kind, s, schema, refresh) ==
    [kind |-> kind, tok |-> NULL, schema |-> schema, refresh |-> refresh,
     target |-> NULL, value |-> NULL,
     stale |-> FALSE, live |-> TRUE]
Req(kind, s, schema, refresh) ==
    [kind |-> kind,
     tok |-> IF Truthy(s["access"]) THEN s["access"] ELSE NULL,
     schema |-> schema, refresh |-> refresh,
     target |-> NULL, value |-> NULL,
     stale |-> FALSE,      \* a stored session was cleared after the dispatch
     live |-> TRUE]        \* the component that sent it is still mounted
ReqOn(kind, s, target, value) ==
    [Req(kind, s, NULL, NULL) EXCEPT !.target = target, !.value = value]

\* the requests whose continuation writes the store, and those whose
\* continuation sets state of the component that sent them; stale and live
\* are kept for these only
Writers == {"login", "switchSel", "switchNav"}
StateSetters ==
    {"login", "switchSel", "register", "delete", "todos", "tusers"}
    \cup Mutations \cup TeamKinds

\* every writer in flight when a store s that holds something is cleared
\* becomes stale
Staled(r) == IF r.kind \in Writers THEN [r EXCEPT !.stale = TRUE] ELSE r
MarkStale(s, B) ==
    LET T == {Staled(r) : r \in BagToSet(B)}
    IN IF s = EmptyStore THEN B
       ELSE [t \in T |-> IF t.kind \in Writers
                         THEN CopiesIn(t, B) + CopiesIn([t EXCEPT !.stale = FALSE], B)
                         ELSE CopiesIn(t, B)]

\* every request of the kinds K in flight when the component that sent it
\* is unmounted is orphaned
OrphanedIn(K, r) == IF r.kind \in K THEN [r EXCEPT !.live = FALSE] ELSE r
OrphanIn(K, B) ==
    LET T == {OrphanedIn(K, r) : r \in BagToSet(B)}
    IN [t \in T |-> IF t.kind \in K /\ [t EXCEPT !.live = TRUE] # t
                    THEN CopiesIn(t, B) + CopiesIn([t EXCEPT !.live = TRUE], B)
                    ELSE CopiesIn(t, B)]
\* every state setter in flight when its view is unmounted is orphaned
Orphaned(r) == OrphanedIn(StateSetters, r)
Orphan(B) == OrphanIn(StateSetters, B)

\* the requests a view sends from its mount effects
MountValidator(s) ==
    IF Truthy(s["access"]) THEN {Req("check", s, NULL, NULL)} ELSE {}
MountRequests(v, s) ==
    IF v = "todos"
    THEN SetToBag(MountValidator(s) \cup {Req("todos", s, NULL, NULL)}
                  \cup (IF s["role"] \in {"OWNER", "MEMBER"}
                        THEN {Req("tusers", s, NULL, NULL)} ELSE {}))
    ELSE EmptyBag

\* PrivateRoute: a protected element renders only with a stored token
PrivateRouteOpen(target, s) == target
PrivateRoute(target, s) ==
    IF target \in Protected /\ ~Truthy(s["access"]) THEN "login" ELSE target

LoginInit == [modal |-> FALSE, resp |-> NULL, options |-> <<>>]

\* the router shows target: another route unmounts the old view, mounts
\* the new one (the login view when PrivateRoute redirects) and runs its
\* mount effects
\* (lg is the Login state when the route, and so the mounted element, stays)
Arrive(target, s, fl, lg) ==
    LET dest == PrivateRoute(target, s)
    IN IF target = view
       THEN /\ view' = view
            /\ login' = lg
            /\ inflight' = fl
       ELSE /\ view' = dest
            /\ login' = LoginInit
            /\ inflight' = Orphan(fl) (+) MountRequests(dest, s)

\* a handler or timer sends a request only below the bound; the requests of
\* a mount effect are always sent
Room == BagCardinality(inflight) < MaxInflight

\* -------------------------------------------------------- the Todos page
PAGE_SIZE == 5

\* a todo as the server serializes it
Todo(id, done, overdue, rec, assignee, by) ==
    [id |-> id, is_completed |-> done, is_overdue |-> overdue,
     recurrence_type |-> rec, assigned_to_username |-> assignee,
     created_by |-> by]
\* the ids the server gives, and the first n todos of a tenant: completed,
\* overdue, recurring, assigned and created in every combination the
\* filters and the controls tell apart
IdOf == <<"1", "2", "3", "4", "5", "6", "7", "8", "9", "10", "11", "12">>
TodoAt(i) ==
    Todo(IdOf[i], i % 2 = 0, i % 3 = 0,
         IF i % 4 = 0 THEN "DAILY" ELSE IF i % 4 = 1 THEN "NONE" ELSE NULL,
         IF i % 3 = 1 THEN Username ELSE IF i % 3 = 2 THEN "bob" ELSE NULL,
         IF i % 2 = 1 THEN Username ELSE "bob")
SampleTodos(n) == [i \in 1..n |-> TodoAt(i)]
\* the server: the todos of the tenant, the index of the next id it gives
\* and the mutations it was sent
ServerWith(n) == [todos |-> SampleTodos(n), next |-> n + 1, muts |-> 0]
ServerInit == ServerWith(0)

Filters == {"ALL", "PENDING", "COMPLETED", "OVERDUE", "RECURRING", "MY TASKS"}
\* the team section of the page: shown, the rows TenantUsersList loaded, and
\* the role and username it read from the store when it last rendered
\* (open: showTeamManagement; mounted: TenantUsersList is rendered)
TeamClosed ==
    [open |-> FALSE, mounted |-> FALSE, loading |-> FALSE, users |-> <<>>,
     actionLoading |-> NULL, role |-> NULL, me |-> NULL]
\* TenantUsersList as it mounts, and after it rendered again
TeamMount(s) ==
    [open |-> TRUE, mounted |-> TRUE, loading |-> TRUE, users |-> <<>>,
     actionLoading |-> NULL, role |-> s["role"], me |-> s["username"]]
TeamRender(team, s) == [team EXCEPT !.role = s["role"], !.me = s["username"]]
\* isOwner && showTeamManagement && <TenantUsersList/> in a render of Todos
TeamShown(open, s) == open /\ s["role"] = "OWNER"
TeamIn(team, s) ==
    IF TeamShown(team.open, s)
    THEN IF team.mounted THEN TeamRender(team, s) ELSE TeamMount(s)
    ELSE [TeamClosed EXCEPT !.open = team.open]
\* the state of Todos when it is not mounted, and after its mount: role and
\* me are what the last render read from the store (me is also the
\* currentUsername the filter effect last ran with)
TodosInit ==
    [todos |-> <<>>, filteredTodos |-> <<>>, filter |-> "ALL", page |-> 1,
     role |-> NULL, me |-> NULL, team |-> TeamClosed]
TodosMount(s) == [TodosInit EXCEPT !.role = s["role"], !.me = s["username"]]

\* the filter effect of Todos: filteredTodos from todos and filter, and the
\* page back to 1 (the effect runs after the render that changed todos,
\* filter or currentUsername, before any other handler)
FilterTodos(todos, filter, currentUsername) ==
    IF filter = "COMPLETED" THEN SelectSeq(todos, LAMBDA t : t.is_completed)
    ELSE IF filter = "PENDING" THEN SelectSeq(todos, LAMBDA t : ~t.is_completed)
    ELSE IF filter = "OVERDUE"
    THEN SelectSeq(todos, LAMBDA t : t.is_overdue /\ ~t.is_completed)
    ELSE IF filter = "RECURRING"
    THEN SelectSeq(todos, LAMBDA t : Truthy(t.recurrence_type)
                                     /\ t.recurrence_type # "NONE")
    ELSE IF filter = "MY TASKS"
    THEN SelectSeq(todos, LAMBDA t : t.assigned_to_username = currentUsername)
    ELSE todos
FilterEffectKeepsPage(tp, s) ==
    [tp EXCEPT !.filteredTodos = FilterTodos(tp.todos, tp.filter, s["username"])]
FilterEffect(tp, s) ==
    [tp EXCEPT !.filteredTodos = FilterTodos(tp.todos, tp.filter, s["username"]),
               !.page = 1]
\* Todos renders again after one of its setters ran: it reads role and
\* username from the store, and the filter effect runs when todos, filter
\* or currentUsername differ from those of the render before (changed)
Render(tp, s, changed) ==
    LET read == [tp EXCEPT !.role = s["role"], !.me = s["username"],
                           !.team = TeamIn(tp.team, s)]
    IN IF changed \/ s["username"] # tp.me THEN FilterEffect(read, s) ELSE read
\* the requests in flight after that render: TenantUsersList loads its users
\* as it mounts, and its requests are orphaned as it unmounts
RenderFlight(tp, s, fl) ==
    IF TeamShown(tp.team.open, s) /\ ~tp.team.mounted
    THEN fl (+) SetToBag({Req("team", s, NULL, NULL)})
    ELSE IF tp.team.mounted /\ ~TeamShown(tp.team.open, s)
    THEN OrphanIn(TeamKinds, fl)
    ELSE fl
\* the page a step leaves: the mounted one, a newly mounted one, or none
PageAt(v, s) ==
    IF v = view THEN todosPage
    ELSE IF v = "todos" THEN TodosMount(s) ELSE TodosInit
KeepPage ==
    /\ server' = server
    /\ todosPage' = PageAt(view', store')

\* pagination of the render
TotalPages(tp) == (Len(tp.filteredTodos) + PAGE_SIZE - 1) \div PAGE_SIZE
PaginatedTodos(tp) ==
    LET start == (tp.page - 1) * PAGE_SIZE
        stop == IF start + PAGE_SIZE < Len(tp.filteredTodos)
                THEN start + PAGE_SIZE ELSE Len(tp.filteredTodos)
    IN SubSeq(tp.filteredTodos, start + 1, stop)
Shown(tp) == {PaginatedTodos(tp)[i] : i \in DOMAIN PaginatedTodos(tp)}
\* the todos of the page whose controls are clicked: its first and its last
Clicked(tp) ==
    LET p == PaginatedTodos(tp)
    IN IF p = <<>> THEN {} ELSE {p[1], p[Len(p)]}

\* the controls TodoItem and Todos render; role and username are what the
\* render read from the store (a TodoItem renders with the page)
CanEditAny(role, username, todo) == role \in {"OWNER", "MEMBER"}
CanEdit(role, username, todo) ==
    role = "OWNER" \/ (role = "MEMBER" /\ todo.created_by = username)
CanDelete(role, todo) == role = "OWNER"
CanCreate(role) == role = "OWNER" \/ role = "MEMBER"
FiltersOffered(role) ==
    IF role # "VIEWER" THEN Filters ELSE Filters \ {"MY TASKS"}
\* the controls of a row of TenantUsersList
canManage(team, u) ==
    team.role = "OWNER" /\ u.username # team.me /\ u.role # "OWNER"
\* the rows it renders, none while loading
Rows(team) ==
    IF team.mounted /\ ~team.loading
    THEN {team.users[i] : i \in DOMAIN team.users} ELSE {}

\* what the server does with a mutation
ApplyMutation(todos, r, n) ==
    IF r.kind = "create"
    THEN Append(todos, Todo(IdOf[n], FALSE, FALSE, "NONE", r.value, Username))
    ELSE IF r.kind = "remove" THEN SelectSeq(todos, LAMBDA t : t.id # r.target)
    ELSE [i \in DOMAIN todos |->
            IF todos[i].id # r.target THEN todos[i]
            ELSE IF r.kind = "toggle"
            THEN [todos[i] EXCEPT !.is_completed = (r.value = "true")]
            ELSE [todos[i] EXCEPT !.recurrence_type = r.value]]
\* the body of its response: the todo as it is now (none for a removal)
MutationBody(todos, r) ==
    [todo |-> SelectSeq(todos, LAMBDA t :
                  IF r.kind = "create" THEN t = todos[Len(todos)]
                  ELSE t.id = r.target)]
\* what GET todos/ answers: a bare array, a {results: [...]} page, or
\* something that is neither
TodosData(todos) ==
    {[shape |-> sh, list |-> todos] : sh \in {"array", "page", "other"}}
TodosOf(data) == IF data.shape \in {"array", "page"} THEN data.list ELSE <<>>
\* what customers/users/ answers to the team list
TeamLists ==
    {<<>>,
     <<[username |-> Username, role |-> "OWNER"],
       [username |-> "bob", role |-> "OWNER"],
       [username |-> "carol", role |-> "MEMBER"]>>}
TeamData == [shape : {"array", "results"}, list : TeamLists]
TeamOf(data) == data.list

\* ------------------------------------------------------------ responses
FailStatus == {401, 403, 500, 0}       \* 0: no response at all (network error)

\* what auth/login/ answers with its n-th token pair
LoginData(n) ==
    {[access |-> AccessOf(n), refresh |-> RefreshOf(n), role |-> r,
      username |-> Username, email |-> "alice@x", tenant |-> "t1",
      hasTenants |-> tl[1], tenants |-> tl[2]] :
        r \in Roles,
        tl \in {<<FALSE, <<>>>>, <<TRUE, <<"t1">>>>, <<TRUE, <<"t1", "t2">>>>}}

\* what auth/switch-tenant/ answers for the requested schema
SwitchData(n, schema) ==
    {[access |-> AccessOf(n), refresh |-> RefreshOf(n), role |-> r,
      username |-> Username, tenant |-> schema,
      hasTenants |-> tl[1], tenants |-> tl[2]] :
        r \in Roles, tl \in {<<FALSE, <<>>>>, <<TRUE, <<"t1", "t2">>>>}}

\* what customers/users/ answers: a bare array or a {results: [...]} page
MemberLists ==
    {<<>>, <<[username |-> "bob", role |-> "OWNER"]>>}
    \cup {<<[username |-> "bob", role |-> "OWNER"], [username |-> Username, role |-> r]>> :
            r \in Roles}
UsersData == [shape : {"array", "results"}, list : MemberLists]

NoData == [none |-> TRUE]

\* what auth/register/ answers: with a token pair of the new account, or
\* without
RegisterData(n) == {[access |-> AccessOf(n)], [access |-> NULL]}

\* the (detail, error) texts the body of a failed response may carry
BodiesOf(status) == IF status = 403 THEN Body403 ELSE {<<"", "">>}

OkData(r, n) ==
    IF r.kind = "login" THEN LoginData(n)
    ELSE IF r.kind \in {"switchSel", "switchNav"} THEN SwitchData(n, r.schema)
    ELSE IF r.kind = "check" THEN UsersData
    ELSE IF r.kind = "register" THEN RegisterData(n)
    ELSE IF r.kind = "todos" THEN TodosData(server.todos)
    ELSE IF r.kind = "team" THEN TeamData
    ELSE {NoData}

\* ------------------------------------------------- response interceptor
\* the 403 heuristic of the response interceptor
\* (includes() is computed once for each text of the model)
Matches403NoNot(msg) ==
    msg \in {t \in Texts : Includes(Chars(t), Cannot) \/ Includes(Chars(t), Permission)}
MatchingTexts ==
    {t \in Texts : \/ Includes(Chars(t), Cannot)
                   \/ Includes(Chars(t), Not)
                   \/ Includes(Chars(t), Permission)}
Matches403(msg) == msg \in MatchingTexts

\* api.interceptors.response, error branch: the effects it has on a store s
InterceptErrorAlwaysNotifies(s, status, detail, error) ==
    IF status = 401
    THEN [clears |-> TRUE, log |-> <<"clear", "alert_ended", "href">>]
    ELSE IF status = 403 /\ Truthy(s["access"]) /\ Matches403(ErrorMsg(detail, error))
    THEN [clears |-> TRUE, log |-> <<"clear", "alert_permissions", "href">>]
    ELSE [clears |-> FALSE, log |-> <<>>]
InterceptError(s, status, detail, error) ==
    LET wasLoggedIn == Truthy(s["access"])
    IN IF status = 401
       THEN [clears |-> TRUE,
             log |-> <<"clear">> \o (IF wasLoggedIn THEN <<"alert_ended">> ELSE <<>>)
                     \o <<"href">>]
       ELSE IF status = 403 /\ wasLoggedIn /\ Matches403(ErrorMsg(detail, error))
       THEN [clears |-> TRUE, log |-> <<"clear", "alert_permissions", "href">>]
       ELSE [clears |-> FALSE, log |-> <<>>]

\* Dashboard state: pc is where handleManualAggregation stands, metrics the
\* last_updated of the metrics held (0: none loaded), old the last_updated
\* the handler's closure captured, server the stamp the server would answer,
\* flow whether a triggered aggregation flow is still running
\* confirmed the checkbox of the delete-account dialog (deleteConfirmed)
AggInit ==
    [pc |-> "idle", refreshing |-> FALSE, loading |-> FALSE, metrics |-> 0,
     old |-> 0, attempts |-> 0, fetches |-> 0, server |-> 1, flow |-> FALSE,
     confirmed |-> FALSE]

Init ==
    /\ agg = AggInit
    /\ store = EmptyStore
    /\ view = "login"
    /\ login = LoginInit
    /\ inflight = EmptyBag
    /\ reloadPending = "none"
    /\ issued = 0
    /\ log = <<>>
    /\ server = ServerInit
    /\ todosPage = TodosInit

\* ---------------------------------------------------------- user actions
\* Login.handleLogin up to its await
SubmitLogin ==
    /\ view = "login" /\ Room
    /\ inflight' = inflight (+) SetToBag({Req("login", store, NULL, NULL)})
    /\ log' = <<>>
    /\ UNCHANGED <<store, view, login, reloadPending, issued>>
    /\ UNCHANGED agg
    /\ KeepPage

\* Login.handleTenantSelect up to its await
TenantSelect(t) ==
    /\ view = "login" /\ login.modal
    /\ \E i \in 1..Len(login.options) : login.options[i] = t
    /\ LET lg == [login EXCEPT !.modal = FALSE]
       IN IF t = login.resp
          THEN /\ Arrive("todos", store, inflight, lg)
               /\ log' = <<"nav_todos">>
          ELSE /\ Room
               /\ inflight' = inflight (+) SetToBag({Req("switchSel", store, t, NULL)})
               /\ login' = lg
               /\ view' = view
               /\ log' = <<>>
    /\ UNCHANGED <<store, reloadPending, issued>>
    /\ UNCHANGED agg
    /\ KeepPage

\* Navbar.handleTenantSwitch up to its await
NavbarSwitch(t) ==
    /\ view = "todos" /\ Room
    /\ inflight' = inflight (+) SetToBag({Req("switchNav", store, t, store["refresh"])})
    /\ log' = <<>>
    /\ UNCHANGED <<store, view, login, reloadPending, issued>>
    /\ UNCHANGED agg
    /\ KeepPage

\* Navbar.logout
Logout ==
    /\ view = "todos"
    /\ store' = ClearStore(store)
    /\ Arrive("login", store', MarkStale(store, inflight), login)
    /\ reloadPending' = "reload"
    /\ log' = <<"clear", "nav_root", "reload">>
    /\ UNCHANGED issued
    /\ UNCHANGED agg
    /\ KeepPage

\* ------------------------------------------------------------ timers
\* useSessionValidator: the interval fires validateSession up to its await
\* the interval is set when a protected view mounts and cleared when it
\* unmounts
TimerNeverCleared(v) == TRUE
TimerPending(v) == v \in Protected
\* validateSession can run up to its await
TickEnabled(v, s, fl) ==
    TimerPending(v) /\ (Truthy(s["access"]) => BagCardinality(fl) < MaxInflight)
ValidatorTick ==
    /\ TickEnabled(view, store, inflight)
    /\ IF Truthy(store["access"])
       THEN /\ Room
            /\ inflight' = inflight (+) SetToBag({Req("check", store, NULL, NULL)})
            /\ log' = <<>>
       ELSE /\ inflight' = inflight
            /\ log' = <<"skipped">>        \* if (!token) return
    /\ UNCHANGED <<store, view, login, reloadPending, issued>>
    /\ UNCHANGED agg
    /\ KeepPage

\* ------------------------------------------------- signup and deletion
\* the Sign Up link of the Login page and the Login link of the Signup page
OpenSignup ==
    /\ view = "login"
    /\ Arrive("signup", store, inflight, login)
    /\ log' = <<>>
    /\ UNCHANGED <<store, reloadPending, issued>>
    /\ UNCHANGED agg
    /\ KeepPage

OpenLogin ==
    /\ view = "signup"
    /\ Arrive("login", store, inflight, login)
    /\ log' = <<>>
    /\ UNCHANGED <<store, reloadPending, issued>>
    /\ UNCHANGED agg
    /\ KeepPage

\* the submit and delete buttons are disabled while their request is pending
Pending(k) == \E r \in BagToSet(inflight) : r.kind = k /\ r.live

\* Signup.handleSignup up to its await; valid is the result of validateForm
SubmitSignup ==
    /\ view = "signup" /\ ~Pending("register")
    /\ \E valid \in BOOLEAN :
          IF valid
          THEN /\ Room
               /\ inflight' = inflight (+) SetToBag({Req("register", store, NULL, NULL)})
               /\ log' = <<>>
          ELSE /\ inflight' = inflight
               /\ log' = <<"invalid">>
    /\ UNCHANGED <<store, view, login, reloadPending, issued>>
    /\ UNCHANGED agg
    /\ KeepPage

\* the checkbox of the delete-account dialog
ToggleConfirm ==
    /\ view = "dashboard"
    /\ agg' = [agg EXCEPT !.confirmed = ~@]
    /\ log' = <<>>
    /\ UNCHANGED <<store, view, login, inflight, reloadPending, issued>>
    /\ UNCHANGED <<server, todosPage>>

\* Dashboard.handleDeleteAccount up to its await
DeleteGuardAbsent(a) == TRUE
DeleteGuard(a) == a.confirmed
DeleteAccount ==
    /\ view = "dashboard" /\ ~Pending("delete")
    /\ IF DeleteGuard(agg)
       THEN /\ Room
            /\ inflight' = inflight (+) SetToBag({Req("delete", store, NULL, NULL)})
            /\ log' = <<>>
       ELSE /\ inflight' = inflight
            /\ log' = <<"unconfirmed">>    \* if (!deleteConfirmed) return
    /\ UNCHANGED <<store, view, login, reloadPending, issued>>
    /\ UNCHANGED agg
    /\ KeepPage

\* ------------------------------------------------------- the Todos page
\* a click on the mounted page whose handler sets state of Todos and sends
\* nothing itself: Todos renders again
Click(tp) ==
    /\ todosPage' = Render(tp, store, FALSE)
    /\ inflight' = RenderFlight(tp, store, inflight)
    /\ log' = <<>>
    /\ UNCHANGED <<store, view, login, reloadPending, issued, server>>
    /\ UNCHANGED agg
\* a click whose handler sends the requests reqs
Send(reqs) ==
    /\ Room
    /\ inflight' = inflight (+) SetToBag(reqs)
    /\ log' = <<>>
    /\ UNCHANGED <<store, view, login, reloadPending, issued>>
    /\ UNCHANGED agg
\* a click that sends a todo mutation
Mutate(req) ==
    /\ server.muts < MaxMut
    /\ server' = [server EXCEPT !.muts = @ + 1]
    /\ Send({req})
    /\ todosPage' = todosPage
\* a click whose handler returns early
Return(what) ==
    /\ log' = <<what>>
    /\ UNCHANGED <<store, view, login, inflight, reloadPending, issued, server,
                   todosPage>>
    /\ UNCHANGED agg

\* a filter button: setFilter with the filter in force renders nothing
SetFilter(f) ==
    /\ view = "todos"
    /\ f \in FiltersOffered(todosPage.role)
    /\ f # todosPage.filter
    /\ todosPage' = Render([todosPage EXCEPT !.filter = f], store, TRUE)
    /\ inflight' = RenderFlight(todosPage, store, inflight)
    /\ log' = <<>>
    /\ UNCHANGED <<store, view, login, reloadPending, issued, server>>
    /\ UNCHANGED agg

\* the Prev and Next buttons, rendered when there is more than one page
PrevEnabled(tp) == TotalPages(tp) > 1 /\ tp.page # 1
NextEnabled(tp) == TotalPages(tp) > 1 /\ tp.page # TotalPages(tp)
PrevPage ==
    /\ view = "todos"
    /\ PrevEnabled(todosPage)
    /\ Click([todosPage EXCEPT !.page = @ - 1])
NextPage ==
    /\ view = "todos"
    /\ NextEnabled(todosPage)
    /\ Click([todosPage EXCEPT !.page = @ + 1])

\* Todos.handleCreate up to its await; valid is title.trim() being non-empty
handleCreate ==
    /\ view = "todos"
    /\ CanCreate(todosPage.role)
    /\ \E valid \in BOOLEAN :
          IF valid
          THEN Mutate(ReqOn("create", store, NULL, todosPage.me))
          ELSE Return("invalid")

\* TodoItem.toggleStatus, handleUpdate (the Save button of the edit form)
\* and handleDelete of a displayed todo up to their await; the toggle
\* button is disabled while its request is pending
Toggling(t) ==
    \E r \in BagToSet(inflight) : r.kind = "toggle" /\ r.live /\ r.target = t.id
RecurrenceTypes == {"DAILY"}
toggleStatus(t) ==
    /\ view = "todos"
    /\ t \in Shown(todosPage)
    /\ CanEdit(todosPage.role, todosPage.me, t)
    /\ ~Toggling(t)
    /\ Mutate(ReqOn("toggle", store, t.id,
                    IF t.is_completed THEN "false" ELSE "true"))
handleUpdate(t, rec) ==
    /\ view = "todos"
    /\ t \in Shown(todosPage)
    /\ CanEdit(todosPage.role, todosPage.me, t)
    /\ Mutate(ReqOn("update", store, t.id, rec))
handleDelete(t) ==
    /\ view = "todos"
    /\ t \in Shown(todosPage)
    /\ CanDelete(todosPage.role, t)
    /\ Mutate(ReqOn("remove", store, t.id, NULL))

\* ---------------------------------------------------------- the team list
\* the Invite Users / Hide button of an owner's page
ToggleTeam ==
    /\ view = "todos"
    /\ todosPage.role = "OWNER"
    /\ todosPage.team.open \/ Room
    /\ Click([todosPage EXCEPT !.team.open = ~@])

\* TenantUsersList.handleRemoveUser and handleRoleChange of a row up to
\* their await; ok is the answer to window.confirm
Act(u, req) ==
    /\ Send({req})
    /\ server' = server
    /\ todosPage' = [todosPage EXCEPT
                       !.team = [TeamRender(@, store) EXCEPT
                                   !.actionLoading = u.username]]
handleRemoveUser(u) ==
    /\ view = "todos"
    /\ u \in Rows(todosPage.team)
    /\ canManage(todosPage.team, u)
    /\ todosPage.team.actionLoading # u.username
    /\ \E ok \in BOOLEAN :
          IF ok THEN Act(u, ReqOn("removeUser", store, u.username, NULL))
          ELSE Return("declined")
handleRoleChange(u, newRole) ==
    /\ view = "todos"
    /\ u \in Rows(todosPage.team)
    /\ canManage(todosPage.team, u)
    /\ todosPage.team.actionLoading # u.username
    /\ IF newRole = u.role THEN Return("same")
       ELSE \E ok \in BOOLEAN :
               IF ok THEN Act(u, ReqOn("setRole", store, u.username, newRole))
               ELSE Return("declined")

\* ------------------------------------------------------------ browser
\* a started document navigation commits: the page is loaded afresh, the
\* requests and timers of the old document are gone
PageReload ==
    /\ reloadPending # "none"
    /\ LET dest == PrivateRoute(IF reloadPending = "login" THEN "login" ELSE view, store)
       IN /\ view' = dest
          /\ inflight' = MountRequests(dest, store)
    /\ login' = LoginInit
    /\ reloadPending' = "none"
    /\ log' = <<>>
    /\ todosPage' = IF view' = "todos" THEN TodosMount(store) ELSE TodosInit
    /\ UNCHANGED <<store, issued, server>>
    /\ UNCHANGED agg

\* ------------------------------------------------------- continuations
\* Each handler continues after its await with the response (status, data)
\* of its request req, in the same task as the response interceptor: s, fl
\* and rp are the store, the requests in flight and the pending navigation
\* as the interceptor left them, lg the effects so far.
\* the writes of Login.handleLogin
LoginTenant(data) ==
    IF Truthy(data.tenant) THEN data.tenant
    ELSE IF data.hasTenants /\ Len(data.tenants) > 0 THEN data.tenants[1]
    ELSE NULL
LoginTenantsList(data) ==
    IF data.hasTenants THEN data.tenants
    ELSE IF Truthy(LoginTenant(data)) THEN <<LoginTenant(data)>>
    ELSE <<>>
LoginWrites(s, data) ==
    [s EXCEPT !["access"] = data.access,
              !["refresh"] = data.refresh,
              !["role"] = OrEmpty(data.role),
              !["email"] = OrEmpty(data.email),
              !["username"] = OrEmpty(data.username),
              !["tenant"] = OrEmpty(LoginTenant(data)),
              !["tenants"] = Stringify(LoginTenantsList(data))]

\* the writes of Login.handleTenantSelect
SelectWritesKeepsRole(s, data) ==
    [s EXCEPT !["access"] = data.access,
              !["refresh"] = data.refresh,
              !["username"] = OrEmpty(data.username),
              !["tenant"] = OrEmpty(data.tenant)]
SelectWrites(s, data) ==
    [s EXCEPT !["access"] = data.access,
              !["refresh"] = data.refresh,
              !["role"] = OrEmpty(data.role),
              !["username"] = OrEmpty(data.username),
              !["tenant"] = OrEmpty(data.tenant)]

\* the writes of Navbar.handleTenantSwitch
NavbarWrites(s, data, schema) ==
    [s EXCEPT !["access"] = data.access,
              !["refresh"] = data.refresh,
              !["role"] = data.role,
              !["username"] = data.username,
              !["tenant"] = schema,
              !["tenants"] = IF data.hasTenants THEN Stringify(data.tenants) ELSE @]

\* setError of the Login page: it shows only while the page is mounted
SetError(req, lg, what) == IF req.live THEN lg \o <<what>> ELSE lg

\* Login.handleLogin after its await
LoginShowsModalNever(list) == FALSE
LoginShowsModal(list) == Len(list) > 1
AfterLogin(req, status, data, s, fl, rp, lg) ==
    IF status = 200
    THEN /\ log' = lg
         /\ store' = LoginWrites(s, data)
         /\ reloadPending' = rp
         /\ IF LoginShowsModal(LoginTenantsList(data))
            THEN /\ login' = IF req.live
                              THEN [modal |-> TRUE, resp |-> data.tenant,
                                    options |-> LoginTenantsList(data)]
                              ELSE login
                 /\ view' = view
                 /\ inflight' = fl
            ELSE Arrive("todos", store', fl, login)
    ELSE /\ log' = SetError(req, lg, "error_login")
         /\ store' = s
         /\ reloadPending' = rp
         /\ UNCHANGED <<view, login>>
         /\ inflight' = fl

\* Login.handleTenantSelect after its await
AfterSwitchSelOptimistic(req, status, data, s, fl, rp, lg) ==
    IF status = 200
    THEN /\ log' = lg
         /\ store' = SelectWrites(s, data)
         /\ reloadPending' = rp
         /\ Arrive("todos", store', fl, login)
    ELSE /\ log' = SetError(req, lg, "error_switch")
         /\ store' = [s EXCEPT !["tenant"] = req.schema]
         /\ reloadPending' = rp
         /\ UNCHANGED <<view, login>>
         /\ inflight' = fl
AfterSwitchSel(req, status, data, s, fl, rp, lg) ==
    IF status = 200
    THEN /\ log' = lg
         /\ store' = SelectWrites(s, data)
         /\ reloadPending' = rp
         /\ Arrive("todos", store', fl, login)
    ELSE /\ log' = SetError(req, lg, "error_switch")
         /\ store' = s
         /\ reloadPending' = rp
         /\ UNCHANGED <<view, login>>
         /\ inflight' = fl

\* Navbar.handleTenantSwitch after its await
AfterSwitchNav(req, status, data, s, fl, rp, lg) ==
    /\ IF status = 200
       THEN /\ store' = NavbarWrites(s, data, req.schema)
            /\ reloadPending' = "reload"
            /\ log' = lg
       ELSE /\ log' = lg \o <<"alert_switch">>
            /\ store' = s
            /\ reloadPending' = rp
    /\ UNCHANGED <<view, login>>
    /\ inflight' = fl

\* validateSession after its await: what it decides for a response, given
\* the store at that moment
FindUser(list, name) ==
    IF \E i \in 1..Len(list) : list[i].username = name
    THEN <<list[CHOOSE i \in 1..Len(list) :
                 /\ list[i].username = name
                 /\ \A j \in 1..(i - 1) : list[j].username # name]>>
    ELSE <<>>
IsArray(data) == data.shape = "array"
ValidatorLogsOutOnAnyFailure(s, status, data) ==
    IF status = 200
    THEN /\ IsArray(data)
         /\ LET found == FindUser(data.list, s["username"])
            IN found = <<>> \/ found[1].role # s["role"]
    ELSE TRUE
ValidatorLogsOut(s, status, data) ==
    IF status = 200
    THEN /\ IsArray(data)
         /\ LET found == FindUser(data.list, s["username"])
            IN found = <<>> \/ found[1].role # s["role"]
    ELSE status = 401 \/ status = 403

\* ("ignored": the catch block ends without doing anything)
AfterCheck(req, status, data, s, fl, rp, lg) ==
    /\ IF ValidatorLogsOut(s, status, data)
       THEN /\ log' = lg \o <<"clear", "alert_validator", "nav_login">>
            /\ store' = ClearStore(s)
            /\ reloadPending' = rp
            /\ Arrive("login", store', MarkStale(s, fl), login)
       ELSE /\ log' = IF status = 200 THEN lg ELSE lg \o <<"ignored">>
            /\ store' = s
            /\ reloadPending' = rp
            /\ UNCHANGED <<view, login>>
            /\ inflight' = fl

\* Todos.fetchTodos after its await
AfterTodosNoClear(req, status, data, s, fl, rp, lg) ==
    /\ IF status = 200
       THEN /\ log' = lg
            /\ store' = s
            /\ reloadPending' = rp
            /\ UNCHANGED <<view, login>>
            /\ inflight' = fl
       ELSE /\ log' = lg \o <<"nav_login">>
            /\ store' = s
            /\ reloadPending' = rp
            /\ Arrive("login", store', fl, login)
AfterTodos(req, status, data, s, fl, rp, lg) ==
    /\ IF status = 200
       THEN /\ log' = lg
            /\ store' = s
            /\ reloadPending' = rp
            /\ UNCHANGED <<view, login>>
            /\ inflight' = fl
       ELSE /\ log' = lg \o <<"clear", "nav_login">>
            /\ store' = ClearStore(s)
            /\ reloadPending' = rp
            /\ Arrive("login", store', MarkStale(s, fl), login)

\* Todos.fetchTenantUsers after its await: component state only
AfterOther(req, status, data, s, fl, rp, lg) ==
    /\ log' = lg
    /\ store' = s
    /\ reloadPending' = rp
    /\ UNCHANGED <<view, login>>
    /\ inflight' = fl

\* Signup.handleSignup after its await
AfterRegisterAutoLogin(req, status, data, s, fl, rp, lg) ==
    /\ IF status = 200
       THEN /\ log' = lg \o <<IF Truthy(data.access) THEN "alert_created_credentials"
                               ELSE "alert_created", "nav_login">>
            /\ store' = IF Truthy(data.access)
                        THEN [s EXCEPT !["access"] = data.access] ELSE s
            /\ Arrive("login", store', fl, login)
       ELSE /\ log' = SetError(req, lg, "error_signup")
            /\ store' = s
            /\ UNCHANGED <<view, login>>
            /\ inflight' = fl
    /\ reloadPending' = rp
AfterRegister(req, status, data, s, fl, rp, lg) ==
    /\ IF status = 200
       THEN /\ log' = lg \o <<IF Truthy(data.access) THEN "alert_created_credentials"
                               ELSE "alert_created", "nav_login">>
            /\ store' = s
            /\ Arrive("login", store', fl, login)
       ELSE /\ log' = SetError(req, lg, "error_signup")
            /\ store' = s
            /\ UNCHANGED <<view, login>>
            /\ inflight' = fl
    /\ reloadPending' = rp

\* Dashboard.handleDeleteAccount after its await
AfterDelete(req, status, data, s, fl, rp, lg) ==
    /\ IF status = 200
       THEN /\ log' = lg \o <<"clear", "nav_login">>
            /\ store' = ClearStore(s)
            /\ Arrive("login", store', MarkStale(s, fl), login)
       ELSE /\ log' = SetError(req, lg, "error_delete")
            /\ store' = s
            /\ UNCHANGED <<view, login>>
            /\ inflight' = fl
    /\ reloadPending' = rp

\* Todos.fetchTodos as its callers run it after their await: the component
\* that sent the mutation sends the fetch
FetchTodos(req, s) == [Req("todos", s, NULL, NULL) EXCEPT !.live = req.live]
\* Todos.handleCreate, TodoItem.toggleStatus, handleUpdate and handleDelete
\* after their await
AfterMutationNoFetch(req, status, data, s, fl, rp, lg) ==
    /\ log' = IF status # 200 /\ req.kind = "toggle"
              THEN lg \o <<"alert_status">> ELSE lg
    /\ store' = s
    /\ reloadPending' = rp
    /\ UNCHANGED <<view, login>>
    /\ inflight' = fl
AfterMutation(req, status, data, s, fl, rp, lg) ==
    /\ log' = IF status # 200 /\ req.kind = "toggle"
              THEN lg \o <<"alert_status">> ELSE lg
    /\ store' = s
    /\ reloadPending' = rp
    /\ UNCHANGED <<view, login>>
    /\ inflight' = IF status = 200
                   THEN fl (+) SetToBag({FetchTodos(req, s)}) ELSE fl

\* TenantUsersList.loadUsers, handleRemoveUser and handleRoleChange after
\* their await: a successful action awaits loadUsers
LoadUsers(req, s) ==
    [ReqOn("team", s, req.target, "awaited") EXCEPT !.live = req.live]
AfterTeam(req, status, data, s, fl, rp, lg) ==
    /\ log' = IF status # 200 /\ req.kind # "team"
              THEN SetError(req, lg, "error_team") ELSE lg
    /\ store' = s
    /\ reloadPending' = rp
    /\ UNCHANGED <<view, login>>
    /\ inflight' = IF status = 200 /\ req.kind # "team"
                   THEN fl (+) SetToBag({LoadUsers(req, s)}) ELSE fl

After(req, status, data, s, fl, rp, lg) ==
    IF req.kind = "login" THEN AfterLogin(req, status, data, s, fl, rp, lg)
    ELSE IF req.kind = "switchSel" THEN AfterSwitchSel(req, status, data, s, fl, rp, lg)
    ELSE IF req.kind = "switchNav" THEN AfterSwitchNav(req, status, data, s, fl, rp, lg)
    ELSE IF req.kind = "check" THEN AfterCheck(req, status, data, s, fl, rp, lg)
    ELSE IF req.kind = "todos" THEN AfterTodos(req, status, data, s, fl, rp, lg)
    ELSE IF req.kind = "register" THEN AfterRegister(req, status, data, s, fl, rp, lg)
    ELSE IF req.kind = "delete" THEN AfterDelete(req, status, data, s, fl, rp, lg)
    ELSE IF req.kind \in Mutations THEN AfterMutation(req, status, data, s, fl, rp, lg)
    ELSE IF req.kind \in TeamKinds THEN AfterTeam(req, status, data, s, fl, rp, lg)
    ELSE AfterOther(req, status, data, s, fl, rp, lg)

\* ------------------------------------------------------------ responses
\* the setters of Todos a successful response runs: setTodos, setTenantUsers
\* and the form setters of handleCreate (none in an unmounted component)
Renders(r) == r.live /\ view = "todos" /\ r.kind \in {"todos", "tusers", "create"}
\* the team list after a response of its own: it renders again with what
\* its setters set
TeamAfter(team, r, status, data, s) ==
    LET read == TeamRender(team, s)
    IN IF r.kind = "team"
       THEN [read EXCEPT !.loading = FALSE,
                         !.users = IF status = 200 THEN TeamOf(data) ELSE @,
                         !.actionLoading = IF r.value = "awaited" THEN NULL ELSE @]
       ELSE IF status = 200 THEN read
       ELSE [read EXCEPT !.actionLoading = NULL]
\* the Todos page after the continuation of r
PageAfter(r, status, data) ==
    IF view' # view THEN PageAt(view', store')
    ELSE IF view # "todos" \/ ~r.live THEN todosPage
    ELSE IF status = 200 /\ r.kind = "todos"
    THEN Render([todosPage EXCEPT !.todos = TodosOf(data)], store', TRUE)
    ELSE IF status = 200 /\ Renders(r) THEN Render(todosPage, store', FALSE)
    ELSE IF r.kind \in TeamKinds /\ todosPage.team.mounted
    THEN [todosPage EXCEPT !.team = TeamAfter(@, r, status, data, store')]
    ELSE todosPage

\* a 2xx response passes the response interceptor as it is and the handler
\* that awaited it continues
Fulfil(r, data) ==
    /\ BagIn(r, inflight)
    /\ LET rest == inflight (-) SetToBag({r})
       IN After(r, 200, data, store,
                IF Renders(r) THEN RenderFlight(todosPage, store, rest) ELSE rest,
                reloadPending, <<>>)
    /\ todosPage' = PageAfter(r, 200, data)
    /\ UNCHANGED agg

FulfilSession ==
    \E r \in BagToSet(inflight) :
        /\ r.kind \in Writers
        /\ issued < MaxTok
        /\ issued' = issued + 1
        /\ server' = server
        /\ \E data \in OkData(r, issued + 1) : Fulfil(r, data)

FulfilOther ==
    \E r \in BagToSet(inflight) :
        /\ r.kind \notin Writers \cup Mutations
        /\ issued' = issued
        /\ server' = server
        /\ \E data \in OkData(r, issued + 1) : Fulfil(r, data)

\* the server applies a mutation of an authenticated request whose todo it
\* holds and answers with the todo
Held(todos, id) == \E i \in DOMAIN todos : todos[i].id = id
FulfilMutation ==
    \E r \in BagToSet(inflight) :
        /\ r.kind \in Mutations
        /\ Truthy(r.tok)
        /\ IF r.kind = "create" THEN Len(server.todos) < MaxTodos
           ELSE Held(server.todos, r.target)
        /\ server' = [server EXCEPT
                        !.todos = ApplyMutation(@, r, server.next),
                        !.next = IF r.kind = "create" THEN @ + 1 ELSE @]
        /\ issued' = issued
        /\ Fulfil(r, MutationBody(server'.todos, r))

\* a failed response passes the error branch of the response interceptor,
\* which rejects it on to the awaiting handler; its catch block runs in the
\* same task
Reject(r, status, detail, error) ==
    /\ BagIn(r, inflight)
    /\ LET rest == inflight (-) SetToBag({r})
           ic == InterceptError(store, status, detail, error)
       IN After(r, status, NoData,
                IF ic.clears THEN ClearStore(store) ELSE store,
                IF ic.clears THEN MarkStale(store, rest) ELSE rest,
                IF ic.clears THEN "login" ELSE reloadPending,
                ic.log)
    /\ todosPage' = PageAfter(r, status, NoData)
    /\ UNCHANGED <<issued, server>>
    /\ UNCHANGED agg

RejectAny ==
    \E r \in BagToSet(inflight), status \in FailStatus :
        \E body \in BodiesOf(status) : Reject(r, status, body[1], body[2])

Next ==
    \/ SubmitLogin
    \/ \E t \in Schemas : TenantSelect(t)
    \/ \E t \in Schemas : NavbarSwitch(t)
    \/ Logout
    \/ ValidatorTick
    \/ PageReload
    \/ FulfilSession
    \/ FulfilOther
    \/ RejectAny

Spec == Init /\ [][Next]_vars

TypeOK ==
    /\ view \in Views
    /\ reloadPending \in {"none", "login", "reload"}
    /\ issued \in 0..MaxTok

\* ------------------------------------------------- responses on their own
\* The handling of responses from the states in which requests are in
\* flight: credentials submitted with nothing stored; Todos mounted after a
\* login; a Navbar switch sent from Todos; another tenant than the login's
\* chosen in the selection step.
InitResponse ==
    /\ agg = AggInit
    /\ server = ServerInit
    /\ reloadPending = "none"
    /\ log = <<>>
    /\ \/ /\ store = EmptyStore
          /\ issued = 0
          /\ view = "login"
          /\ login = LoginInit
          /\ inflight = SetToBag({Req("login", store, NULL, NULL)})
       \/ \E d \in LoginData(1) :
             /\ store = LoginWrites(EmptyStore, d)
             /\ issued = 1
             /\ \/ /\ view = "todos"
                   /\ login = LoginInit
                   /\ \/ inflight = MountRequests("todos", store)
                      \/ \E t \in Schemas :
                            inflight = SetToBag({Req("switchNav", store, t,
                                                     store["refresh"])})
                \/ /\ LoginShowsModal(LoginTenantsList(d))
                   /\ view = "login"
                   /\ login = [modal |-> FALSE, resp |-> d.tenant,
                               options |-> LoginTenantsList(d)]
                   /\ inflight = SetToBag({Req("switchSel", store, "t2", NULL)})
    /\ todosPage = IF view = "todos" THEN TodosMount(store) ELSE TodosInit

NextResponse ==
    \/ FulfilSession
    \/ FulfilOther
    \/ RejectAny
    \/ PageReload

SpecResponse == InitResponse /\ [][NextResponse]_vars

\* ------------------------------------------------- signup and deletion
\* The Signup page opened with whatever an earlier session left in the
\* store, and the Dashboard of a logged-in owner (the delete-account button
\* is rendered for an owner).
InitAccount ==
    /\ agg = AggInit
    /\ server = ServerInit
    /\ todosPage = TodosInit
    /\ reloadPending = "none"
    /\ log = <<>>
    /\ login = LoginInit
    /\ inflight = EmptyBag
    /\ \/ /\ view = "signup"
          /\ \/ store = EmptyStore /\ issued = 0
             \/ \E d \in LoginData(1) :
                   store = LoginWrites(EmptyStore, d) /\ issued = 1
       \/ /\ view = "dashboard"
          /\ issued = 1
          /\ \E d \in LoginData(1) :
                d.role = "OWNER" /\ store = LoginWrites(EmptyStore, d)

NextAccount ==
    \/ OpenSignup
    \/ OpenLogin
    \/ SubmitSignup
    \/ ToggleConfirm
    \/ DeleteAccount
    \/ FulfilOther
    \/ RejectAny
    \/ PageReload

SpecAccount == InitAccount /\ [][NextAccount]_vars

\* ------------------------------------------------------- the Todos page
\* Todos has mounted for an owner in a tenant with no todos, with one page
\* of them or with two, or for a member or a viewer in a tenant with two
\* pages; the validator's first check and the users of the assignment list
\* have been answered, the todos not yet.
Session(role) ==
    LoginWrites(EmptyStore,
        [access |-> AccessOf(1), refresh |-> RefreshOf(1), role |-> role,
         username |-> Username, email |-> "alice@x", tenant |-> "t1",
         hasTenants |-> FALSE, tenants |-> <<>>])
InitTodos ==
    /\ agg = AggInit
    /\ reloadPending = "none"
    /\ log = <<>>
    /\ login = LoginInit
    /\ issued = 1
    /\ view = "todos"
    /\ \E role \in Roles, n \in {0, PAGE_SIZE, MaxTodos} :
          /\ role = "OWNER" \/ n = MaxTodos
          /\ store = Session(role)
          /\ server = ServerWith(n)
    /\ inflight = SetToBag({Req("todos", store, NULL, NULL)})
    /\ todosPage = TodosMount(store)

NextTodos ==
    \/ \E f \in Filters : SetFilter(f)
    \/ PrevPage
    \/ NextPage
    \/ handleCreate
    \/ \E t \in Clicked(todosPage) : toggleStatus(t)
    \/ \E t \in Clicked(todosPage), rec \in RecurrenceTypes : handleUpdate(t, rec)
    \/ \E t \in Clicked(todosPage) : handleDelete(t)
    \/ FulfilMutation
    \/ FulfilOther
    \/ RejectAny
    \/ PageReload

SpecTodos == InitTodos /\ [][NextTodos]_vars

\* ---------------------------------------------------------- the team list
\* Todos has mounted for an owner and the requests of its mount have been
\* answered; the team section is closed.
InitTeam ==
    /\ agg = AggInit
    /\ reloadPending = "none"
    /\ log = <<>>
    /\ login = LoginInit
    /\ issued = 1
    /\ view = "todos"
    /\ store = Session("OWNER")
    /\ inflight = EmptyBag
    /\ server = ServerInit
    /\ todosPage = TodosMount(store)

NextTeam ==
    \/ ToggleTeam
    \/ \E u \in Rows(todosPage.team) : handleRemoveUser(u)
    \/ \E u \in Rows(todosPage.team), newRole \in Roles : handleRoleChange(u, newRole)
    \/ \E t \in Schemas : NavbarSwitch(t)
    \/ FulfilSession
    \/ FulfilOther
    \/ RejectAny
    \/ PageReload

SpecTeam == InitTeam /\ [][NextTeam]_vars

\* ================================================ Dashboard aggregation
maxAttempts == 15

\* the session a Dashboard is looked at with
OwnerSession ==
    LoginWrites(EmptyStore,
        [access |-> AccessOf(1), refresh |-> RefreshOf(1), role |-> "OWNER",
         username |-> Username, email |-> "alice@x", tenant |-> "t1",
         hasTenants |-> FALSE, tenants |-> <<>>])

\* the Dashboard has just mounted: its effect has called fetchMetrics
InitAgg ==
    /\ agg = [AggInit EXCEPT !.loading = TRUE]
    /\ store = OwnerSession
    /\ view = "dashboard"
    /\ login = LoginInit
    /\ inflight = EmptyBag
    /\ reloadPending = "none"
    /\ issued = 1
    /\ log = <<>>
    /\ server = ServerInit
    /\ todosPage = TodosInit

\* fetchMetrics of the mount effect returns
MetricsLoaded(ok) ==
    /\ agg.loading
    /\ agg' = [agg EXCEPT !.loading = FALSE,
                          !.metrics = IF ok THEN agg.server ELSE @]
    /\ UNCHANGED sessionVars

\* handleManualAggregation up to its await; the button is disabled while
\* refreshing
TriggerAlwaysEnabled(a) == TRUE
TriggerEnabled(a) == ~a.refreshing
Trigger ==
    /\ TriggerEnabled(agg)
    /\ agg' = [agg EXCEPT !.refreshing = TRUE, !.pc = "posting",
                          !.old = agg.metrics, !.attempts = 0, !.fetches = 0]
    /\ UNCHANGED sessionVars

\* the trigger answers completed: the aggregation ran synchronously
PostCompleted ==
    /\ agg.pc = "posting" /\ agg.server < MaxLU
    /\ agg' = [agg EXCEPT !.pc = "syncFetch", !.server = @ + 1]
    /\ UNCHANGED sessionVars

\* await fetchMetrics() returns (it catches its own failure)
SyncFetchDone(ok) ==
    /\ agg.pc = "syncFetch"
    /\ agg' = [agg EXCEPT !.pc = "idle", !.refreshing = FALSE,
                          !.metrics = IF ok THEN agg.server ELSE @]
    /\ UNCHANGED sessionVars

\* the trigger answers another status: a flow was started, poll in 1s
PostPending ==
    /\ agg.pc = "posting"
    /\ agg' = [agg EXCEPT !.pc = "timer", !.flow = TRUE]
    /\ UNCHANGED sessionVars

\* the trigger request fails: the catch block
PostFailed ==
    /\ agg.pc = "posting"
    /\ agg' = [agg EXCEPT !.pc = "idle", !.refreshing = FALSE]
    /\ UNCHANGED sessionVars

\* the started flow finishes on the server and stamps new metrics
FlowCompletes ==
    /\ agg.flow /\ agg.server < MaxLU
    /\ agg' = [agg EXCEPT !.flow = FALSE, !.server = @ + 1]
    /\ UNCHANGED sessionVars

\* the timeout fires: poll sends its metrics request
PollFire ==
    /\ agg.pc = "timer"
    /\ agg' = [agg EXCEPT !.pc = "polling", !.fetches = @ + 1]
    /\ UNCHANGED sessionVars

\* poll after its await
PollStopsAt(a) == a.attempts >= maxAttempts
PollAnswered ==
    /\ agg.pc = "polling"
    /\ agg' = IF agg.server # agg.old \/ PollStopsAt(agg)
              THEN [agg EXCEPT !.metrics = agg.server, !.refreshing = FALSE,
                               !.pc = "idle"]
              ELSE [agg EXCEPT !.metrics = agg.server, !.attempts = @ + 1,
                               !.pc = "timer"]
    /\ UNCHANGED sessionVars

\* the metrics request of poll fails: poll throws, nothing catches it
PollFailed ==
    /\ agg.pc = "polling"
    /\ agg' = [agg EXCEPT !.pc = "dead"]
    /\ UNCHANGED sessionVars

NextAgg ==
    \/ \E ok \in BOOLEAN : MetricsLoaded(ok)
    \/ Trigger
    \/ PostCompleted
    \/ \E ok \in BOOLEAN : SyncFetchDone(ok)
    \/ PostPending
    \/ PostFailed
    \/ FlowCompletes
    \/ PollFire
    \/ PollAnswered
    \/ PollFailed

SpecAgg == InitAgg /\ [][NextAgg]_vars

\* ================================================================ claims
Range(f) == {f[i] : i \in DOMAIN f}
Count(e, l) == Cardinality({i \in DOMAIN l : l[i] = e})
\* attempts to send the browser to the login view
RedirectCount(l) == Count("href", l) + Count("nav_login", l)
\* notices shown to the user
Alerts == {"alert_ended", "alert_permissions", "alert_validator", "alert_switch"}
AlertCount(l) == Cardinality({i \in DOMAIN l : l[i] \in Alerts})
InFlight == BagToSet(inflight)
\* the step that handles the response to request r: a failure with status
\* st and body b, or a success with data d (handling r takes one request
\* of its kind out of flight and mounts no view that sends that kind)
KindCount(k, B) ==
    LET S == {x \in BagToSet(B) : x.kind = k}
    IN BagCardinality([x \in S |-> B[x]])
Gone(r) == KindCount(r.kind, inflight') = KindCount(r.kind, inflight) - 1
Handled == {r \in InFlight : Gone(r)}
Failed(r, st, b) == Reject(r, st, b[1], b[2])
Succeeded(r, d) == Fulfil(r, d)
SessionKinds == {"login", "switchSel", "switchNav"}
SwitchKinds == {"switchSel", "switchNav"}

\* C1: a 401 response handled while a validator is mounted (its timer is
\* pending) causes at most one attempt to go to the login view.
C1_AtMostOneRedirect ==
    [][\A r \in Handled :
         (view \in Protected /\ Failed(r, 401, <<"", "">>))
           => RedirectCount(log') <= 1]_vars

\* C2 as stated: whatever the failure of a switch-tenant call (any status,
\* or no response), handling it leaves the store as it was.
C2_AnyFailureKeepsSession ==
    [][\A r \in Handled, st \in FailStatus : \A b \in BodiesOf(st) :
         (r.kind \in SwitchKinds /\ Failed(r, st, b))
           => store' = store]_vars

\* C2 amended: a switch-tenant failure that the response interceptor does
\* not take for the end of the session (not a 401, and not a 403 with a
\* stored token and a text containing cannot, not or permission) leaves
\* every stored field as it was, for the Navbar and for the Login page.
SessionEnding(s, status, msg) ==
    status = 401 \/ (status = 403 /\ Truthy(s["access"]) /\ Matches403(msg))
\* (stated of the steps that change the store: none of them is the handling
\* of such a failure)
C2_OtherFailureKeepsSession ==
    [][(store' # store)
         => \A r \in Handled, st \in FailStatus : \A b \in BodiesOf(st) :
              ~(/\ r.kind \in SwitchKinds
                /\ ~SessionEnding(store, st, ErrorMsg(b[1], b[2]))
                /\ Failed(r, st, b))]_vars
C2_Witness ==
    /\ log = <<"error_switch">> /\ view = "login"
    /\ Truthy(getToken) /\ getTenantSchema = "t1"

\* C3: the response to a request that was in flight when the store was
\* cleared writes no field of the store.
C3_NoLateWrite ==
    [][\A r \in Handled : \A d \in OkData(r, issued + 1) :
         (r.stale /\ Succeeded(r, d))
           => \A k \in Keys : store'[k] = store[k] \/ store'[k] = NULL]_vars

\* C4: with a validator mounted and a session stored, a successful
\* membership response that lacks the stored username, or lists it with
\* another role, clears the session and redirects to login, whichever of
\* the two accepted shapes the response has.
Lacks(list, name) == \A i \in DOMAIN list : list[i].username # name
ListsOtherRole(list, name, role) ==
    \E i \in DOMAIN list : list[i].username = name /\ list[i].role # role
ListsSameRole(list, name, role) ==
    \E i \in DOMAIN list : list[i].username = name /\ list[i].role = role
CheckAnswered(r, d) == r.kind = "check" /\ Succeeded(r, d)
C4_DriftForcesLogout ==
    [][\A r \in Handled, d \in UsersData :
         (/\ CheckAnswered(r, d) /\ view \in Protected /\ Truthy(getToken)
          /\ \/ Lacks(d.list, getUsername)
             \/ ListsOtherRole(d.list, getUsername, getRole))
           => (store' = EmptyStore /\ view' = "login" /\ RedirectCount(log') >= 1)]_vars

\* C5: for a membership response without the stored username the validator
\* clears, notifies and redirects exactly once each.
C5_RemovedLogsOutOnce ==
    [][\A r \in Handled, d \in UsersData :
         (CheckAnswered(r, d) /\ Lacks(d.list, getUsername))
           => (/\ Count("clear", log') = 1
               /\ AlertCount(log') = 1
               /\ RedirectCount(log') = 1)]_vars

\* C6: a membership response listing the stored username with another role
\* clears the session (the stored role reads absent afterwards); one
\* listing it with the stored role leaves the store unchanged.
C6_RoleChangeClears ==
    [][\A r \in Handled, d \in UsersData :
         /\ (CheckAnswered(r, d) /\ ListsOtherRole(d.list, getUsername, getRole))
              => (store' = EmptyStore /\ store'["role"] = NULL)
         /\ (CheckAnswered(r, d) /\ ListsSameRole(d.list, getUsername, getRole))
              => store' = store]_vars

\* C7: once a clear has run, whatever logins, selections and switches wrote
\* before, every read of the store returns the absent value.
C7_ClearLeavesNothing ==
    "clear" \in Range(log)
        => /\ getToken = NULL /\ getRefresh = NULL /\ getRole = NULL
           /\ getUsername = NULL /\ getTenantSchema = NULL /\ getTenantList = NULL
           /\ store["email"] = NULL
C7_Witness == "clear" \in Range(log) /\ issued = 2

\* C8: when the handler's catch clears a store that the interceptor has
\* already cleared for the same response, the store ends as the first clear
\* left it.
C8_SecondClearIsNoOp ==
    [][(Count("clear", log') = 2)
         => \A r \in Handled, st \in FailStatus : \A b \in BodiesOf(st) :
              (/\ InterceptError(store, st, b[1], b[2]).clears
               /\ Failed(r, st, b))
                => store' = ClearStore(store)]_vars
C8_Witness == Count("clear", log) = 2 /\ store = EmptyStore

\* C9: the Login page that receives a login response listing more than one
\* tenant shows the selection step and does not navigate; from the Login
\* page the Todos view is reached only by a login listing at most one
\* tenant, by selecting a tenant, or by a successful switch; selecting
\* writes nothing, and role and tenant are written only by the continuation
\* of a successful login or switch-tenant response.
ListsSeveral(data) == data.hasTenants /\ Len(data.tenants) > 1
Selecting == \E t \in Schemas : TenantSelect(t)
Answered(kinds) ==
    \E r \in Handled : \E d \in OkData(r, issued + 1) :
        r.kind \in kinds /\ Succeeded(r, d) /\ (r.kind = "login" => ~ListsSeveral(d))
C9_SelectionBeforeTenantView ==
    [][/\ (issued' # issued)
            => \A r \in Handled : \A d \in OkData(r, issued + 1) :
                 (r.kind = "login" /\ ListsSeveral(d) /\ Succeeded(r, d))
                   => (view' = view /\ (r.live => login'.modal))
       /\ (view = "login" /\ view' \in Protected)
            => (Selecting \/ Answered({"login", "switchSel"}))
       /\ Selecting => store' = store
       /\ (\E k \in {"role", "tenant"} : store'[k] # store[k] /\ store'[k] # NULL)
            => \E r \in Handled : \E d \in OkData(r, issued + 1) :
                   r.kind \in SessionKinds /\ Succeeded(r, d)]_vars
C9_Witness ==
    /\ view = "login" /\ login.modal /\ Len(login.options) = 2
    /\ Truthy(getToken) /\ getTenantSchema = "t1"

\* C10: a poll chain stops (refreshing off, no further timer) at the first
\* response whose last_updated differs from the captured one, and never
\* sends more than 15 metrics requests.
C10_PollBounded ==
    [][/\ (agg.pc = "polling" /\ agg'.pc \in {"idle", "timer"} /\ agg'.metrics # agg.old)
            => (agg'.pc = "idle" /\ ~agg'.refreshing)
       /\ agg'.fetches <= 15]_vars

\* C11: when a triggered aggregation has nothing left to run (no request in
\* flight, no timer pending), whichever way it ended, the refreshing
\* indicator is off.
C11_RefreshingEndsOff ==
    agg.pc \in {"idle", "dead"} => ~agg.refreshing

\* C12: the stored access token, refresh token, role, username and tenant
\* schema are all absent or all from one login or switch-tenant response:
\* a step that changes one of them leaves all five absent or sets all five
\* from the one response it handles, and a successful switch leaves neither
\* token of the session before.
SessionFields == {"access", "refresh", "role", "username", "tenant"}
FromExchange(s, d) ==
    /\ s["access"] = d.access /\ s["refresh"] = d.refresh
    /\ s["role"] = d.role /\ s["username"] = d.username
    /\ s["tenant"] = d.tenant
OneSession(s) ==
    \/ \A k \in SessionFields : s[k] = NULL
    \/ /\ \E n \in 1..(MaxTok + 1) :
              s["access"] = AccessOf(n) /\ s["refresh"] = RefreshOf(n)
       /\ s["role"] \in Roles /\ s["username"] = Username
       /\ s["tenant"] \in Schemas
C12_SingleExchange ==
    [][/\ OneSession(store')
       /\ (\E k \in SessionFields : store'[k] # store[k])
            => \/ \A k \in SessionFields : store'[k] = NULL
               \/ \E r \in Handled : \E d \in OkData(r, issued + 1) :
                      /\ r.kind \in SessionKinds
                      /\ Succeeded(r, d)
                      /\ FromExchange(store', d)
       /\ (issued' # issued)
            => \A r \in Handled : \A d \in OkData(r, issued + 1) :
                 (r.kind \in SwitchKinds /\ Succeeded(r, d))
                   => /\ FromExchange(store', d)
                      /\ store'["access"] # store["access"]
                      /\ store'["refresh"] # store["refresh"]]_vars
C12_Witness ==
    /\ issued = 2 /\ getToken = AccessOf(2) /\ getRefresh = RefreshOf(2)
    /\ getTenantSchema = "t2" /\ view = "todos"

\* what the response interceptor did in the last task: it alone sets
\* window.location.href, as its last effect
InterceptorPart(l) ==
    IF "href" \in Range(l)
    THEN SubSeq(l, 1, CHOOSE i \in DOMAIN l :
                        l[i] = "href" /\ \A j \in 1..(i - 1) : l[j] # "href")
    ELSE <<>>

\* C13: handling a 401 response, the interceptor clears the whole store
\* and starts the navigation to /login whether or not a token was stored,
\* and shows the session-ended notice exactly when one was stored.
C13_UnauthorizedEndsSession ==
    [][\A r \in Handled :
         Failed(r, 401, <<"", "">>)
           => /\ store' = EmptyStore
              /\ reloadPending' = "login"
              /\ InterceptorPart(log') =
                    IF Truthy(getToken) THEN <<"clear", "alert_ended", "href">>
                    ELSE <<"clear", "href">>]_vars
C13_Witness ==
    /\ log = <<"clear", "href", "error_login">> /\ reloadPending = "login"
    /\ store = EmptyStore

\* C14: handling a 403 response, the interceptor clears the store, shows
\* the permissions notice and starts the navigation to /login exactly when
\* a token was stored and the error text (detail, else error) contains
\* cannot, not or permission; otherwise it does nothing: no navigation, and
\* the store is as before wherever the awaiting handler leaves it alone.
RoleChangeTexts ==
    {t \in Texts : \E w \in {Cannot, Not, Permission} : Includes(Chars(t), w)}
KeepsStoreOnFailure == {"login", "switchSel", "switchNav", "tusers"}
C14_ForbiddenHeuristic ==
    [][\A r \in Handled, b \in Body403 :
         Failed(r, 403, b)
           => IF /\ Truthy(getToken)
                 /\ (IF b[1] # "" THEN b[1] ELSE b[2]) \in RoleChangeTexts
              THEN /\ store' = EmptyStore
                   /\ reloadPending' = "login"
                   /\ InterceptorPart(log') = <<"clear", "alert_permissions", "href">>
              ELSE /\ InterceptorPart(log') = <<>>
                   /\ reloadPending' = reloadPending
                   /\ r.kind \in KeepsStoreOnFailure
                        => (store' = store /\ "clear" \notin Range(log'))]_vars
C14_Witness ==
    /\ log = <<"clear", "alert_permissions", "href", "error_switch">>
    /\ store = EmptyStore /\ reloadPending = "login"

\* C15: a 403 response to a user-initiated request whose text (detail,
\* else error) contains none of cannot, not, permission does not log the
\* user out: the store is as before and nothing sends the browser to the
\* login view.
UserInitiated == {"todos"}
C15_Unmatched403KeepsSession ==
    [][\A r \in Handled, b \in Body403 :
         (/\ r.kind \in UserInitiated
          /\ ErrorMsg(b[1], b[2]) \notin RoleChangeTexts
          /\ Failed(r, 403, b))
           => (/\ store' = store
               /\ RedirectCount(log') = 0
               /\ view' = view
               /\ reloadPending' = reloadPending)]_vars

\* C16: every request dispatched in a step carries as bearer value the
\* access token stored at its dispatch when one is stored, and no
\* Authorization header when none is stored.  (A handler sends before it
\* writes anything and a mount effect sends after the writes of the step, so
\* the store at dispatch is the store the step ends with.)
Dispatched ==
    {r \in BagToSet(inflight') :
        /\ CopiesIn(r, inflight') > CopiesIn(r, inflight)
        /\ ~r.stale /\ r.live}
C16_BearerIsStoredToken ==
    [][(inflight' # inflight) =>
         \A r \in Dispatched :
            r.tok = IF Truthy(store'["access"]) THEN store'["access"] ELSE NULL]_vars
C16_Witness ==
    /\ getToken = AccessOf(2)
    /\ \E r \in InFlight : r.kind = "check" /\ r.tok = AccessOf(2)

\* C17: when the membership call of the validator fails with a status other
\* than 401 and 403, or with no response, the store is left as it was,
\* nothing is shown and nothing navigates, and the interval of a mounted
\* validator can start the next check (the mount effects alone can put more
\* requests in flight than MaxInflight; the next check is then started once
\* they are answered).
OtherFailures == FailStatus \ {401, 403}
C17_OtherFailureIgnored ==
    [][\A r \in {h \in Handled : h.kind = "check"}, st \in OtherFailures :
         Failed(r, st, <<"", "">>)
           => (/\ store' = store
               /\ log' = <<"ignored">>
               /\ view' = view
               /\ reloadPending' = reloadPending
               /\ TimerPending(view') = TimerPending(view)
               /\ (TimerPending(view) /\ BagCardinality(inflight) <= MaxInflight)
                    => TickEnabled(view', store', inflight'))]_vars
C17_Witness ==
    /\ log = <<"ignored">> /\ view = "todos"
    /\ Truthy(getToken) /\ reloadPending = "none"

\* C18: a membership check is started only while a protected view, which
\* hosts the validator, is mounted (the interval is cleared when the view is
\* torn down), and only with an access token stored: a validator without a
\* stored token issues no call.
C18_NoCheckAfterTeardown ==
    [][(inflight' # inflight) =>
         \A r \in Dispatched :
            r.kind = "check" => (view' \in Protected /\ Truthy(store'["access"]))]_vars
C18_Witness ==
    /\ view \in Protected /\ ~Truthy(getToken)
    /\ KindCount("check", inflight) = 0 /\ log = <<"skipped">>

DeleteHandled == {h \in Handled : h.kind = "delete"}
C20_DeleteAccount ==
    [][/\ \A r \in DeleteHandled :
            Succeeded(r, NoData)
              => (store' = EmptyStore /\ view' = "login"
                  /\ log' = <<"clear", "nav_login">>)
       /\ \A r \in DeleteHandled, st \in FailStatus : \A b \in BodiesOf(st) :
            Failed(r, st, b)
              => (/\ r.live => log'[Len(log')] = "error_delete"
                  /\ Count("clear", log')
                       = Count("clear", InterceptError(store, st, b[1], b[2]).log)
                  /\ store' = IF InterceptError(store, st, b[1], b[2]).clears
                              THEN EmptyStore ELSE store)
       /\ (inflight' # inflight)
            => \A r \in Dispatched : r.kind = "delete" => agg.confirmed]_vars
C20_Witness ==
    /\ log = <<"clear", "nav_login">> /\ store = EmptyStore
    /\ view = "login" /\ agg.confirmed

\* C21: whenever a step starts a navigation to the entry point (the
\* interceptor on 401 or 403, the validator, the todo list fetch, logout),
\* the store has been cleared before the navigation is started, no request
\* sent in that step carries a token, and a token written later is always a
\* newly issued one, never one that was stored before.
Redirects == {"href", "nav_login", "nav_root"}
FirstAt(S, l) ==
    IF \E i \in DOMAIN l : l[i] \in S
    THEN CHOOSE i \in DOMAIN l : l[i] \in S /\ \A j \in 1..(i - 1) : l[j] \notin S
    ELSE 0
C21_ClearBeforeRedirect ==
    [][/\ (FirstAt(Redirects, log') > 0)
            => (/\ FirstAt({"clear"}, log') > 0
                /\ FirstAt({"clear"}, log') < FirstAt(Redirects, log')
                /\ ~Truthy(store'["access"])
                /\ \A r \in Dispatched : r.tok = NULL)
       /\ (store'["access"] # store["access"] /\ Truthy(store'["access"]))
            => (issued' = issued + 1 /\ store'["access"] = AccessOf(issued'))]_vars
C21_Witness ==
    /\ log = <<"clear", "nav_login">> /\ view = "login"
    /\ store = EmptyStore /\ reloadPending = "none" /\ issued = 1

\* C22: every switch-tenant request, from the Navbar and from the tenant
\* selection after login, is sent with the target schema and with the
\* refresh token that the store holds when it is sent.
C22_SwitchSendsRefresh ==
    [][(inflight' # inflight) =>
         \A r \in Dispatched :
            r.kind \in SwitchKinds
              => (r.schema \in Schemas /\ r.refresh = store["refresh"])]_vars

\* C23: a successful todo mutation (create, edit, toggle, delete) is
\* followed, in the step that handles its response, by a fetch of the whole
\* list, and the list of the page is not changed by that step; the list
\* is replaced by what a successful fetch returned.
MutationsHandled == {h \in Handled : h.kind \in Mutations}
FetchesHandled == {h \in Handled : h.kind = "todos" /\ h.live}
Fetched(d) == IF d.shape = "other" THEN <<>> ELSE d.list
C23_RefetchAfterMutation ==
    [][/\ \A r \in MutationsHandled :
             Succeeded(r, MutationBody(server'.todos, r))
                => (/\ KindCount("todos", inflight')
                          = KindCount("todos", inflight) + 1
                    /\ \E q \in BagToSet(inflight') :
                          /\ q.kind = "todos" /\ q.live = r.live
                          /\ CopiesIn(q, inflight') > CopiesIn(q, inflight)
                    /\ todosPage'.todos = todosPage.todos)
       /\ \A r \in FetchesHandled : \A d \in TodosData(server.todos) :
             Succeeded(r, d) => todosPage'.todos = Fetched(d)]_vars
C23_Witness ==
    /\ view = "todos"
    /\ server.muts = 1
    /\ inflight = EmptyBag
    /\ server.todos \notin {SampleTodos(n) : n \in 0..MaxTodos}
    /\ todosPage.todos = server.todos

\* C24: of the todos the page displays, edit and toggle are offered to an
\* owner for each and to a member for those the member created, delete to
\* an owner only, nothing that mutates to a viewer; the create form is
\* offered to owners and members; the role and username that decide are
\* those stored when the page rendered.
Offers(role, me, t) ==
    [edit |-> CanEdit(role, me, t), delete |-> CanDelete(role, t),
     create |-> CanCreate(role)]
Offered(t) == Offers(todosPage.role, todosPage.me, t)
C24_ControlsByRole ==
    /\ [](view = "todos" =>
            \A t \in Shown(todosPage) :
               /\ todosPage.role = "OWNER"
                    => Offered(t) = [edit |-> TRUE, delete |-> TRUE, create |-> TRUE]
               /\ todosPage.role = "MEMBER"
                    => Offered(t) = [edit |-> (t.created_by = todosPage.me),
                                     delete |-> FALSE, create |-> TRUE]
               /\ todosPage.role \notin {"OWNER", "MEMBER"}
                    => Offered(t) = [edit |-> FALSE, delete |-> FALSE,
                                     create |-> FALSE])
    /\ [][(/\ view' = "todos"
           /\ \/ todosPage'.todos # todosPage.todos
              \/ todosPage'.filter # todosPage.filter
              \/ todosPage'.page # todosPage.page)
             => (/\ todosPage'.role = store'["role"]
                 /\ todosPage'.me = store'["username"])]_vars
C24_Witness ==
    /\ view = "todos"
    /\ todosPage.role = "MEMBER" /\ store["role"] = "MEMBER"
    /\ \E t, u \in Shown(todosPage) :
          /\ t.created_by = todosPage.me /\ Offered(t).edit
          /\ u.created_by # todosPage.me /\ ~Offered(u).edit

\* C25: the response to a membership check that was sent with another
\* token than the one now stored (the session was replaced while the check
\* was in flight) leaves the stored session as it is.
ChecksHandled == {h \in Handled : h.kind = "check"}
Outdated(r) == Truthy(getToken) /\ r.tok # getToken
C25_StaleCheckKeepsNewSession ==
    [][\A r \in ChecksHandled :
         Outdated(r) =>
            /\ \A st \in FailStatus : \A b \in BodiesOf(st) :
                   Failed(r, st, b) => store' = store
            /\ \A d \in UsersData : Succeeded(r, d) => store' = store]_vars

\* C26: once a response has forced a logout (the store is cleared and the
\* browser sent to the login view), the response to a membership check that
\* is still in flight causes no further clear, notice or redirect: one
\* removal or role change forces one logout in total.
Quiet(l) == Count("clear", l) = 0 /\ AlertCount(l) = 0 /\ RedirectCount(l) = 0
ForcedOut == store = EmptyStore /\ RedirectCount(log) > 0
C26_OneForcedLogout ==
    [][\A r \in ChecksHandled :
         (ForcedOut /\ Truthy(r.tok)) =>
            /\ \A st \in FailStatus : \A b \in BodiesOf(st) :
                   Failed(r, st, b) => Quiet(log')
            /\ \A d \in UsersData : Succeeded(r, d) => Quiet(log')]_vars

\* C27: a remove-user or role-update request is issued only while the
\* stored role is OWNER, never for the row of the stored username or for a
\* row whose role is OWNER, and a role update never sets the role the row
\* has.
ManagementSent ==
    {q \in BagToSet(inflight') :
        /\ q.kind \in {"removeUser", "setRole"}
        /\ CopiesIn(q, inflight') > CopiesIn(q, inflight)}
RowOf(name) ==
    {u \in Rows(todosPage.team) : u.username = name}
ChainActive(a) == a.pc \in {"posting", "syncFetch", "timer", "polling"}
C28_OnePollChain ==
    [][/\ ChainActive(agg') => (agg'.refreshing /\ ~TriggerEnabled(agg'))
       /\ agg'.refreshing => ~TriggerEnabled(agg')
       /\ Trigger => ~ChainActive(agg)]_vars
C28_Witness == agg.pc = "timer" /\ agg.refreshing /\ agg.attempts >= 1

\* C29: on the todo list page 1 <= page <= max(1, totalPages), where
\* totalPages is the number of filtered todos divided by 5 and rounded up;
\* at most 5 todos are shown; Prev is disabled on page 1 and Next on the
\* last page; a change of the filter or of the fetched todos puts the page
\* back to 1.
PagesFor(n) == CHOOSE k \in 0..n : k * 5 >= n /\ (k = 0 \/ (k - 1) * 5 < n)
LastPage(tp) == IF PagesFor(Len(tp.filteredTodos)) > 1
                THEN PagesFor(Len(tp.filteredTodos)) ELSE 1
C29_PageInRange ==
    /\ [](view = "todos" =>
            /\ TotalPages(todosPage) = PagesFor(Len(todosPage.filteredTodos))
            /\ 1 <= todosPage.page /\ todosPage.page <= LastPage(todosPage)
            /\ Len(PaginatedTodos(todosPage)) <= 5
            /\ todosPage.page = 1 => ~PrevEnabled(todosPage)
            /\ todosPage.page = LastPage(todosPage) => ~NextEnabled(todosPage))
    /\ [][(/\ view' = "todos"
           /\ \/ todosPage'.todos # todosPage.todos
              \/ todosPage'.filter # todosPage.filter)
             => todosPage'.page = 1]_vars
C29_Witness ==
    /\ view = "todos"
    /\ todosPage.page = 2 /\ TotalPages(todosPage) = 2
    /\ Len(PaginatedTodos(todosPage)) = Len(todosPage.filteredTodos) - 5
    /\ ~NextEnabled(todosPage) /\ PrevEnabled(todosPage)

====
